---- MODULE Spec2Model ----
(***************************************************************************)
(* Model of the task scheduler of toutiao-auto-publisher                   *)
(* (src/src/core/scheduler.py) together with the parts of the adapters     *)
(* and of the article reader that the scheduler drives, of the browser     *)
(* manager (src/src/browser/browser_manager.py) and of the account store   *)
(* (src/src/utils/config.py).                                              *)
(*                                                                         *)
(* Threads: a run() and its group runners execute on one event loop (the   *)
(* worker thread's, main_window.py:39-69); cancel() is called from the UI  *)
(* thread (main_window.py:623), so it may fall between any two reads of    *)
(* the cancellation flag, not only at an await.  The reads of _cancelled  *)
(* at lines 239, 250, 258, 270 and 296 are therefore steps of their own;   *)
(* the read at line 319 is taken with the publish result it follows.       *)
(*                                                                         *)
(* Specifications:                                                         *)
(*   SpecGen  generate_tasks() applied to every bounded configuration;     *)
(*   Spec     the scheduler as main_window.py drives it: two accounts,     *)
(*            generate/reset/run only between runs, stop while running;    *)
(*   SpecApi  the scheduler driven through its public methods by a caller  *)
(*            that starts over with cancel(), reset(), run(): one account, *)
(*            and the second run() may start while the cancelled one is    *)
(*            still unwinding;                                             *)
(*   SpecBrowser  the browser manager called by a worker's coroutine under *)
(*            either of two event loops, one account, with close_all() of  *)
(*            the stop sequence running beside it; each await of the       *)
(*            manager is a step, what lies between two awaits is atomic;   *)
(*   SpecStore    add_account() and delete_account() on the account store; *)
(*   SpecLive     Spec with a worker thread that is never terminated and   *)
(*            an event loop that goes on running every coroutine it holds; *)
(*   SpecConcurrent  set_max_concurrent() called with any count of         *)
(*            -12..12 between the runs of one task;                        *)
(*   SpecGroups   the browser manager called by the two account groups of  *)
(*            one run, both on the run's event loop;                       *)
(*   SpecProfiles the browser manager with the storage state files of its  *)
(*            accounts: save_storage_state() and the contexts made later;  *)
(*   SpecLogin    one call of an adapter's wait_for_login(), with the      *)
(*            adapter's cancel() falling anywhere beside it;               *)
(*   SpecReorder  reorder_accounts() applied to every bounded store and    *)
(*            order;                                                       *)
(*   SpecStop     a run of one account with the browser manager its        *)
(*            adapter calls and the stop sequence of stop_publish().       *)
(***************************************************************************)
EXTENDS Integers, Sequences, FiniteSets, TLC

(* ------------------------------ bounds -------------------------------- *)
NumAccounts == 2       \* configured accounts
MaxStored == 3         \* largest number of rows in accounts.json
MaxHandles == 4        \* engines, contexts and pages the manager creates in all
MaxCount == 2          \* largest publish_count a user sets
MaxArticles == 3       \* largest number of loaded articles
MaxCountInput == 12    \* set_max_concurrent() is called with -12..12
MaxOrder == 3          \* longest new_order passed to reorder_accounts()

(* ------------------------- program constants -------------------------- *)
DefaultMaxConcurrent == 3
MinConcurrent == 1
MaxConcurrentLimit == 10
MaxWait == 300         \* wait_for_login(): max_wait, in seconds
Interval == 1          \* wait_for_login(): interval / check_interval

Platforms == {"toutiao", "sohu", "baijiahao"}
SupportedPlatforms == {"toutiao", "sohu"}

PENDING == "pending"
RUNNING == "running"
SUCCESS == "success"
FAILED == "failed"
CANCELLED == "cancelled"
TaskStatus == {PENDING, RUNNING, SUCCESS, FAILED, CANCELLED}

VARIABLES
  account_tasks,    \* Scheduler.account_tasks: sequence of AccountTask
  articles,         \* ExcelReader.articles: sequence of Article (published flag)
  tasks,            \* Scheduler.tasks: sequence of PublishTask
  warnings,         \* shortage warnings logged by the last generate_tasks()
  running,          \* Scheduler._running
  cancelled,        \* Scheduler._cancelled
  adapters,         \* Scheduler._adapters: account_id -> adapter state
  max_concurrent,   \* Scheduler.max_concurrent
  completed_count,  \* Scheduler._completed_count
  total_count,      \* Scheduler._total_count
  runs,             \* the run() invocations: phase, semaphore, final tally
  runners,          \* the _run_account_tasks coroutines of each run()
  cancel_pending,   \* history: the tasks Pending when cancel() hit a run
  login,            \* a call of an adapter's wait_for_login() and the adapter's flag
  current_loop,     \* BrowserManager._current_loop (0: None)
  initialized,      \* BrowserManager._initialized
  browser,          \* BrowserManager._playwright/_browser: the engine held (0: None)
  contexts,         \* BrowserManager._contexts: account_id -> context handle (0: absent)
  pages,            \* BrowserManager._pages: account_id -> page handle (0: absent)
  handles,          \* every engine, context and page the manager created so far
  calls,            \* the calls of the manager's coroutines that are in progress
  profiles,         \* BROWSER_PROFILES_DIR: per profile, is there a storage_state.json
  store,            \* Config._accounts: the account rows of accounts.json
  new_account       \* the id add_account() returned last (<<>>: none yet)

\* the browser manager (browser_manager.py) and the account store (config.py)
manager_vars == <<current_loop, initialized, browser, contexts, pages, handles, calls,
                  profiles>>
store_vars == <<store, new_account>>

scheduler_vars == <<account_tasks, articles, tasks, warnings, running, cancelled,
                    adapters, max_concurrent, completed_count, total_count, runs,
                    runners, cancel_pending, login>>

vars == <<account_tasks, articles, tasks, warnings, running, cancelled, adapters,
          max_concurrent, completed_count, total_count, runs, runners,
          cancel_pending, login, manager_vars, store_vars>>

AccountIds == 1..NumAccounts
\* a run() invocation, and one started before the first has returned
RunIds == {1, 2}

\* the accounts the browser manager is asked for, and its callers
Sessions == {1, 2}
Callers == {1, 2}

\* a caller that is not inside a call of the manager; inside one, result and
\* raised are what the call hands back at its return (a handle, 0 for None),
\* and local is the handle its pending await is about: the engine whose
\* shutdown preceded the launch (0: none), the engine asked for a context,
\* the context asked for a page or for its storage state, the engine
\* close_all() closes; options: whether context_options of get_context()
\* holds 'storage_state'
NoCall == [op |-> "idle", pc |-> "idle", loop |-> 0, account |-> 0, local |-> 0,
           options |-> FALSE, result |-> 0, raised |-> FALSE]

\* a profile directory: whether it holds a storage_state.json (state_file),
\* and, as history, whether save_storage_state() has run for it while its
\* account had a cached context (saved)
NoProfile == [state_file |-> FALSE, saved |-> FALSE]

\* BrowserManager.__init__, browser_manager.py:20-26
ManagerConstructed ==
  /\ current_loop = 0
  /\ initialized = FALSE
  /\ browser = 0
  /\ contexts = [a \in Sessions |-> 0]
  /\ pages = [a \in Sessions |-> 0]
  /\ handles = <<>>
  /\ calls = [c \in Callers |-> NoCall]
  /\ profiles = [a \in Sessions |-> NoProfile]

\* Config.__init__ with no accounts.json, config.py:27-38
StoreEmpty ==
  /\ store = <<>>
  /\ new_account = <<>>

(* ------------------------------ data ---------------------------------- *)
\* PublishTask.result is None until a runner sets a dict {'success','message'}
NoResult == [present |-> FALSE, success |-> FALSE, message |-> ""]
Result(ok, msg) == [present |-> TRUE, success |-> ok, message |-> msg]

\* a faulty variant of PublishTask: every task is given the first article
PublishTaskFirstArticle(acc, art) ==
  [account_id |-> acc.account_id, platform |-> acc.platform, article |-> 1,
   status |-> PENDING, result |-> NoResult]

\* PublishTask(account_id, account_name, platform, article): status PENDING, result None
PublishTask(acc, art) ==
  [account_id |-> acc.account_id, platform |-> acc.platform, article |-> art,
   status |-> PENDING, result |-> NoResult]

\* Article(index, title, content): published starts False
Article(i) == [index |-> i, published |-> FALSE]

(* --------------------------- generate_tasks --------------------------- *)
\* a faulty variant of Eligible: the enabled flag is not consulted
EligibleIgnoringEnabled(acc) == acc.publish_count > 0

\* a faulty variant of Exhausted: the cursor is never compared with the list
NeverExhausted(article_index, arts) == FALSE

\* line 143: the accounts generate_tasks() does not skip
Eligible(acc) == acc.enabled /\ acc.publish_count > 0

\* line 147: the cursor has run past the loaded articles
Exhausted(article_index, arts) == article_index >= Len(arts)

\* lines 146-159: the inner loop of one account, from iteration i.
\* st = [tasks, article_index, warnings]; article_index is the 0-based cursor.
RECURSIVE QuotaLoop(_, _, _, _)
QuotaLoop(st, acc, arts, i) ==
  IF i >= acc.publish_count THEN st
  ELSE IF Exhausted(st.article_index, arts)
       THEN [st EXCEPT !.warnings = @ + 1]                  \* warning, break
       ELSE QuotaLoop([tasks |-> Append(st.tasks, PublishTask(acc, st.article_index + 1)),
                       article_index |-> st.article_index + 1,
                       warnings |-> st.warnings],
                      acc, arts, i + 1)

\* lines 142-159: the outer loop over the accounts, from position k
RECURSIVE AccountLoop(_, _, _, _)
AccountLoop(st, accs, arts, k) ==
  IF k > Len(accs) THEN st
  ELSE AccountLoop(IF Eligible(accs[k]) THEN QuotaLoop(st, accs[k], arts, 0) ELSE st,
                   accs, arts, k + 1)

\* lines 135-162: the task list and the number of shortage warnings logged
generate_tasks(accs, arts) ==
  AccountLoop([tasks |-> <<>>, article_index |-> 0, warnings |-> 0], accs, arts, 1)

(* -------------------------- set_max_concurrent ------------------------ *)
Max(a, b) == IF a >= b THEN a ELSE b
Min(a, b) == IF a <= b THEN a ELSE b

\* line 190: max(1, min(count, 10))
\* a faulty variant of ClampConcurrent: the count is stored as it is given
NoClamp(count) == count

ClampConcurrent(count) == Max(MinConcurrent, Min(count, MaxConcurrentLimit))

\* the counts a caller passes to set_max_concurrent()
ConcurrentInputs == {0, 2}

(* ------------------------------- run() -------------------------------- *)
RECURSIVE SortedSeq(_)
SortedSeq(S) ==
  IF S = {} THEN <<>>
  ELSE LET m == CHOOSE x \in S : \A y \in S : x <= y
       IN <<m>> \o SortedSeq(S \ {m})

\* lines 207-211: account_task_groups[a], the indices of a's tasks in list order
Group(ts, a) == SortedSeq({i \in DOMAIN ts : ts[i].account_id = a})

\* lines 207-211: the keys of account_task_groups
GroupKeys(ts) == {ts[i].account_id : i \in DOMAIN ts}

\* a group's coroutine: where it is (pc), the position of its `for task in
\* tasks` loop (idx), what wait_for_login() returned (login_success, kept
\* until the loop starts, where the code reads it for the last time), and
\* whether the inter-task sleep of the task before ran to its end (slept)
NoRunner == [pc |-> "none", idx |-> 0, login_success |-> <<>>, slept |-> FALSE]
NewRunner == [pc |-> "wait", idx |-> 1, login_success |-> <<>>, slept |-> FALSE]
DoneRunner == [pc |-> "done", idx |-> 0, login_success |-> <<>>, slept |-> FALSE]

\* a run() invocation: its phase, the size of its semaphore, the runner that
\* is executing between two awaits on its event loop (0: none), and whether
\* cancel() and reset() were called while it was active (abandoned: reset()
\* after cancel(), as a caller does that starts over)
FreeRun == [phase |-> "free", semaphore |-> 0, on_loop |-> 0,
            cancel_seen |-> FALSE, reset_seen |-> FALSE, abandoned |-> FALSE]

ActiveRuns == {r \in RunIds : runs[r].phase = "active"}

\* the runners inside `async with semaphore` (line 238) of run r
InSection(r) == {a \in AccountIds : runners[r][a].pc \notin {"none", "wait", "done"}}

\* a faulty variant of SemaphoreFree: acquire() never passes
SemaphoreNeverFree(r) == FALSE

\* a faulty variant of SemaphoreFree: acquire() always passes
SemaphoreAlwaysFree(r) == TRUE

\* asyncio.Semaphore(max_concurrent), line 216: acquire() passes while fewer
\* than its size hold it
SemaphoreFree(r) == Cardinality(InSection(r)) < runs[r].semaphore

\* the runners of one run() share its event loop: between two awaits only
\* one of them executes
MayStep(r, a) == runs[r].phase = "active" /\ runs[r].on_loop \in {0, a}

\* line 260, `not login_success`: a Python tuple is falsy only when empty
PyNot(v) == Len(v) = 0

\* what the adapters' wait_for_login() returns (toutiao_adapter.py:137-184,
\* sohu_adapter.py:174-243): (True, nickname) or (False, "")
LoginResults == {<<TRUE, "nickname">>, <<FALSE, "">>}

SetTask(ts, i, st, res) == [ts EXCEPT ![i].status = st, ![i].result = res]

\* lines 261-264: every task of the group becomes FAILED with '登录超时'
RECURSIVE FailAll(_, _)
FailAll(ts, g) ==
  IF g = <<>> THEN ts
  ELSE FailAll(SetTask(ts, Head(g), FAILED, Result(FALSE, "login_timeout")), Tail(g))

\* line 278: the tasks the except block touches
StillPending(t) == t.status = PENDING

\* a faulty variant of FailPending: the PENDING tasks of every group are failed
FailPendingEverywhere(ts, g) ==
  [i \in DOMAIN ts |-> IF StillPending(ts[i])
                       THEN [ts[i] EXCEPT !.status = FAILED,
                                          !.result = Result(FALSE, "exception")]
                       ELSE ts[i]]

\* lines 277-281: the group's PENDING tasks become FAILED with str(e)
RECURSIVE FailPending(_, _)
FailPending(ts, g) ==
  IF g = <<>> THEN ts
  ELSE FailPending(IF StillPending(ts[Head(g)])
                   THEN SetTask(ts, Head(g), FAILED, Result(FALSE, "exception"))
                   ELSE ts, Tail(g))

\* lines 164-177: does _get_adapter(task) raise ValueError?
GetAdapterRaises(task) ==
  adapters[task.account_id] = "none" /\ task.platform \notin SupportedPlatforms

\* lines 166-180: _adapters after _get_adapter(task) returned
AdaptersAfterGet(task) ==
  IF adapters[task.account_id] = "none"
  THEN [adapters EXCEPT ![task.account_id] = "live"]
  ELSE adapters

\* a faulty variant of mark_as_published: the flag is not set
mark_nothing(arts, i) == arts

\* excel_reader.mark_as_published(article)
mark_as_published(arts, i) == [arts EXCEPT ![i].published = TRUE]

\* a faulty variant of AfterPublish: a failed publish fails the whole group
AfterPublishFailsGroup(ts, i, outcome) ==
  IF outcome = "success"
  THEN SetTask(ts, i, SUCCESS, Result(TRUE, "published"))
  ELSE [k \in DOMAIN ts |-> IF ts[k].account_id = ts[i].account_id
                            THEN [ts[k] EXCEPT !.status = FAILED,
                                               !.result = Result(FALSE, "publish_failed")]
                            ELSE ts[k]]

\* lines 300-314: the status and result a publish_article() outcome gives the task
AfterPublish(ts, i, outcome) ==
  CASE outcome = "success" -> SetTask(ts, i, SUCCESS, Result(TRUE, "published"))
    [] outcome = "failure" -> SetTask(ts, i, FAILED, Result(FALSE, "publish_failed"))
    [] outcome = "raises"  -> SetTask(ts, i, FAILED, Result(FALSE, "publish_exception"))

(* --------------------------- wait_for_login --------------------------- *)
\* an adapter on which wait_for_login() was not called: BaseAdapter.__init__
\* (base_adapter.py:31-52) sets _cancelled False.  In a call, pc is the await
\* the coroutine is suspended at, waited the local variable of that name,
\* result what the call returns (<<>>: nothing yet), raised whether it ends
\* with an exception, and late counts the sleeps that ended after cancel()
NoLogin == [platform |-> "none", pc |-> "idle", cancelled |-> FALSE, waited |-> 0,
            late |-> 0, result |-> <<>>, raised |-> FALSE]

\* the adapters that poll the page's URL once per interval
LoginPlatforms == {"toutiao", "sohu"}

\* wait_for_login() returns res
LoginReturns(res) == login' = [login EXCEPT !.pc = "return", !.result = res]

\* wait_for_login() ends with an exception
LoginRaises == login' = [login EXCEPT !.pc = "return", !.raised = TRUE]

\* wait_for_login() reaches its next await
LoginAwaits(pc) == login' = [login EXCEPT !.pc = pc]

\* toutiao_adapter.py:158-163 and 183-184, sohu_adapter.py:198-204 and
\* 238-239: the loop test, the read of self._cancelled, then the sleep
PollHead ==
  IF login.waited >= MaxWait \/ login.cancelled
  THEN LoginReturns(<<FALSE, "">>)
  ELSE LoginAwaits("sleep")

\* wait_for_login() is called on a new adapter and awaits get_page()
\* (toutiao_adapter.py:144, sohu_adapter.py:181)
WaitForLogin(platform) ==
  /\ login.pc = "idle"
  /\ login' = [login EXCEPT !.platform = platform, !.pc = "get_page"]
  /\ UNCHANGED <<manager_vars, store_vars, account_tasks, articles, tasks, warnings,
                 running, cancelled, adapters, max_concurrent, completed_count,
                 total_count, runs, runners, cancel_pending>>

\* get_page() returns, and page.goto(LOGIN_URL) is awaited, or it raises:
\* ToutiaoAdapter calls it outside any try (line 144), SohuAdapter inside
\* the try of lines 180-243
GetPageReturns ==
  /\ login.pc = "get_page"
  /\ \/ LoginAwaits("goto")
     \/ IF login.platform = "toutiao" THEN LoginRaises ELSE LoginReturns(<<FALSE, "">>)
  /\ UNCHANGED <<manager_vars, store_vars, account_tasks, articles, tasks, warnings,
                 running, cancelled, adapters, max_concurrent, completed_count,
                 total_count, runs, runners, cancel_pending>>

\* page.goto() returns and the loop is entered, or it raises: ToutiaoAdapter
\* returns (False, "") (lines 149-151), SohuAdapter goes on (lines 187-188)
GotoReturns ==
  /\ login.pc = "goto"
  /\ \/ PollHead
     \/ IF login.platform = "toutiao" THEN LoginReturns(<<FALSE, "">>) ELSE PollHead
  /\ UNCHANGED <<manager_vars, store_vars, account_tasks, articles, tasks, warnings,
                 running, cancelled, adapters, max_concurrent, completed_count,
                 total_count, runs, runners, cancel_pending>>

\* asyncio.sleep(interval) is over: waited grows, the page's URL (and, for
\* SohuAdapter, its verification elements) is looked at; when it shows a
\* login, save_login_state() is awaited, else the loop goes round
\* (toutiao_adapter.py:163-170, sohu_adapter.py:204-229)
SleepElapsed ==
  /\ login.pc = "sleep"
  /\ LET l == [login EXCEPT !.waited = @ + Interval,
                            !.late = IF login.cancelled THEN @ + 1 ELSE @]
     IN \E detected \in BOOLEAN :
          IF detected
          THEN login' = [l EXCEPT !.pc = "save"]
          ELSE IF l.waited >= MaxWait \/ l.cancelled
          THEN login' = [l EXCEPT !.pc = "return", !.result = <<FALSE, "">>]
          ELSE login' = [l EXCEPT !.pc = "sleep"]
  /\ UNCHANGED <<manager_vars, store_vars, account_tasks, articles, tasks, warnings,
                 running, cancelled, adapters, max_concurrent, completed_count,
                 total_count, runs, runners, cancel_pending>>

\* save_login_state() returns and get_nickname() is awaited, or it raises:
\* ToutiaoAdapter swallows the exception (lines 169-172), SohuAdapter
\* returns (False, "") from its except block (lines 241-243)
SaveLoginStateReturns ==
  /\ login.pc = "save"
  /\ \/ LoginAwaits("nickname")
     \/ IF login.platform = "toutiao"
        THEN LoginAwaits("nickname")
        ELSE LoginReturns(<<FALSE, "">>)
  /\ UNCHANGED <<manager_vars, store_vars, account_tasks, articles, tasks, warnings,
                 running, cancelled, adapters, max_concurrent, completed_count,
                 total_count, runs, runners, cancel_pending>>

\* get_nickname() returns a nickname or "" (it catches every exception) and
\* wait_for_login() returns (True, nickname): toutiao_adapter.py:175-176,
\* sohu_adapter.py:232-233
NicknameReturns ==
  /\ login.pc = "nickname"
  /\ \E nickname \in {"nickname", ""} : LoginReturns(<<TRUE, nickname>>)
  /\ UNCHANGED <<manager_vars, store_vars, account_tasks, articles, tasks, warnings,
                 running, cancelled, adapters, max_concurrent, completed_count,
                 total_count, runs, runners, cancel_pending>>

\* BaseAdapter.cancel(), base_adapter.py:54-56, called from the thread of
\* Scheduler.cancel() at any time while the adapter is in use: before
\* wait_for_login() is called (during check_login_status()) or during it
AdapterCancel ==
  /\ login.pc # "return"
  /\ ~login.cancelled
  /\ login' = [login EXCEPT !.cancelled = TRUE]
  /\ UNCHANGED <<manager_vars, store_vars, account_tasks, articles, tasks, warnings,
                 running, cancelled, adapters, max_concurrent, completed_count,
                 total_count, runs, runners, cancel_pending>>

(* --------------------------- initial states --------------------------- *)
\* AccountTask rows as load_accounts()/add_account() build them (ids distinct)
AccountTask(i, p, c, e) ==
  [account_id |-> i, platform |-> p, publish_count |-> c, enabled |-> e]

\* Scheduler.__init__, lines 55-75
Constructed ==
  /\ tasks = <<>>
  /\ warnings = 0
  /\ running = FALSE
  /\ cancelled = FALSE
  /\ adapters = [a \in AccountIds |-> "none"]
  /\ max_concurrent = DefaultMaxConcurrent
  /\ completed_count = 0
  /\ total_count = 0
  /\ runs = [r \in RunIds |-> FreeRun]
  /\ runners = [r \in RunIds |-> [a \in AccountIds |-> NoRunner]]
  /\ cancel_pending = {}
  /\ login = NoLogin

\* any configuration: platform, quota (negative included) and enabled flag per
\* account, and any number of loaded articles
GenInit ==
  /\ \E p \in [AccountIds -> Platforms], c \in [AccountIds -> -1..MaxCount],
        e \in [AccountIds -> BOOLEAN] :
       account_tasks = [i \in AccountIds |-> AccountTask(i, p[i], c[i], e[i])]
  /\ \E n \in 0..MaxArticles : articles = [i \in 1..n |-> Article(i)]
  /\ Constructed
  /\ ManagerConstructed
  /\ StoreEmpty

\* the publishing scenarios: quotas per account (as many articles are loaded
\* as the quotas ask for) and the accounts' platforms
RunQuotas == {<<1, 1>>, <<2, 0>>, <<2, 1>>}
RunPlatforms == {<<"toutiao", "sohu">>, <<"toutiao", "baijiahao">>}
ApiQuotas == {<<2>>}
ApiPlatforms == {<<"toutiao">>}

RECURSIVE Sum(_)
Sum(q) == IF q = <<>> THEN 0 ELSE Head(q) + Sum(Tail(q))

Configured(quotas, platforms) ==
  /\ \E q \in quotas, p \in platforms :
       /\ account_tasks = [i \in DOMAIN q |-> AccountTask(i, p[i], q[i], TRUE)]
       /\ articles = [i \in 1..Sum(q) |-> Article(i)]
  /\ Constructed
  /\ ManagerConstructed
  /\ StoreEmpty

Init == Configured(RunQuotas, RunPlatforms)
ApiInit == Configured(ApiQuotas, ApiPlatforms)

(* ------------------------------ actions ------------------------------- *)
\* a faulty variant of GenerateTasks: it also clears the flags and the
\* adapter map, as reset() does
GenerateTasksClearsFlags ==
  /\ LET g == generate_tasks(account_tasks, articles)
     IN /\ tasks' = g.tasks
        /\ warnings' = g.warnings
  /\ cancel_pending' = {}
  /\ running' = FALSE
  /\ cancelled' = FALSE
  /\ adapters' = [a \in AccountIds |-> "none"]
  /\ UNCHANGED <<manager_vars, store_vars, login, account_tasks, articles, max_concurrent,
                 completed_count, total_count, runs, runners>>

\* generate_tasks(), lines 135-162
GenerateTasks ==
  /\ LET g == generate_tasks(account_tasks, articles)
     IN /\ tasks' = g.tasks
        /\ warnings' = g.warnings
  /\ cancel_pending' = {}
  /\ UNCHANGED <<manager_vars, store_vars, login, account_tasks, articles, running, cancelled, adapters, max_concurrent,
                 completed_count, total_count, runs, runners>>

\* set_max_concurrent(count), lines 188-191
SetMaxConcurrent(count) ==
  /\ max_concurrent' = ClampConcurrent(count)
  /\ UNCHANGED <<manager_vars, store_vars, login, account_tasks, articles, tasks, warnings, running, cancelled, adapters,
                 completed_count, total_count, runs, runners, cancel_pending>>

\* run() up to the gather, lines 193-225: the _running guard, the flags and
\* counters, the grouping, the semaphore and one coroutine per group
Run ==
  /\ ~running
  /\ \E r \in RunIds :
       /\ runs[r].phase # "active"
       /\ \A q \in RunIds : q < r => runs[q].phase = "active"
       /\ runs' = [runs EXCEPT ![r] = [FreeRun EXCEPT !.phase = "active",
                                                     !.semaphore = max_concurrent]]
       /\ runners' = [runners EXCEPT ![r] =
            [a \in AccountIds |-> IF a \in GroupKeys(tasks) THEN NewRunner ELSE NoRunner]]
  /\ running' = TRUE
  /\ cancelled' = FALSE
  /\ completed_count' = 0
  /\ total_count' = Len(tasks)
  /\ cancel_pending' = {}
  /\ UNCHANGED <<manager_vars, store_vars, login, account_tasks, articles, tasks, warnings, adapters, max_concurrent>>

\* the group's coroutine ends (a return, or line 283): `async with` releases
\* the semaphore
Finish(r, a) ==
  /\ runners' = [runners EXCEPT ![r][a] = DoneRunner]
  /\ runs' = [runs EXCEPT ![r].on_loop = 0]

\* the runner goes on to its next read of shared state without awaiting
Continue(r, a, rn) ==
  /\ runners' = [runners EXCEPT ![r][a] = rn]
  /\ runs' = [runs EXCEPT ![r].on_loop = a]

\* the runner suspends at an await (an adapter call, the sleep)
Suspend(r, a, rn) ==
  /\ runners' = [runners EXCEPT ![r][a] = rn]
  /\ runs' = [runs EXCEPT ![r].on_loop = 0]

\* lines 275-283: the except block of _run_account_tasks
GroupException(r, a) ==
  LET g == Group(tasks, a)
  IN /\ tasks' = FailPending(tasks, g)
     /\ completed_count' =
          completed_count + Cardinality({k \in DOMAIN g : StillPending(tasks[g[k]])})
     /\ Finish(r, a)

\* lines 238-247: acquire the semaphore, first read of _cancelled, _get_adapter
AcquireSemaphore(r, a) ==
  /\ MayStep(r, a)
  /\ runners[r][a].pc = "wait"
  /\ SemaphoreFree(r)
  /\ LET t == tasks[Group(tasks, a)[1]]
     IN IF cancelled
        THEN /\ Finish(r, a)
             /\ UNCHANGED <<tasks, completed_count, adapters>>
        ELSE IF GetAdapterRaises(t)
        THEN /\ GroupException(r, a)
             /\ UNCHANGED adapters
        ELSE /\ adapters' = AdaptersAfterGet(t)
             /\ Continue(r, a, [runners[r][a] EXCEPT !.pc = "check_cancel"])
             /\ UNCHANGED <<tasks, completed_count>>
  /\ UNCHANGED <<manager_vars, store_vars, login, account_tasks, articles, warnings, running, cancelled, max_concurrent,
                 total_count, cancel_pending>>

\* lines 250-253: second read of _cancelled, then check_login_status() is awaited
CallCheckLogin(r, a) ==
  /\ MayStep(r, a)
  /\ runners[r][a].pc = "check_cancel"
  /\ IF cancelled
     THEN Finish(r, a)
     ELSE Suspend(r, a, [runners[r][a] EXCEPT !.pc = "check_login"])
  /\ UNCHANGED <<manager_vars, store_vars, login, account_tasks, articles, tasks, warnings, running, cancelled, adapters,
                 max_concurrent, completed_count, total_count, cancel_pending>>

\* lines 253-257: check_login_status() returns True or False, or raises
CheckLoginReturns(r, a) ==
  /\ MayStep(r, a)
  /\ runners[r][a].pc = "check_login"
  /\ \/ /\ Continue(r, a, [runners[r][a] EXCEPT !.pc = "loop"])
        /\ UNCHANGED <<tasks, completed_count>>
     \/ /\ Suspend(r, a, [runners[r][a] EXCEPT !.pc = "wait_login"])
        /\ UNCHANGED <<tasks, completed_count>>
     \/ GroupException(r, a)
  /\ UNCHANGED <<manager_vars, store_vars, login, account_tasks, articles, warnings, running, cancelled, adapters,
                 max_concurrent, total_count, cancel_pending>>

\* lines 258-266 once wait_for_login() has returned res: third read of
\* _cancelled, then the `if not login_success` test
AfterLoginWait(r, a, res) ==
  IF cancelled
  THEN /\ Finish(r, a)
       /\ UNCHANGED <<tasks, completed_count>>
  ELSE IF PyNot(res)
  THEN /\ tasks' = FailAll(tasks, Group(tasks, a))
       /\ completed_count' = completed_count + Len(Group(tasks, a))
       /\ runners' = [runners EXCEPT ![r][a] = [DoneRunner EXCEPT !.login_success = res]]
       /\ runs' = [runs EXCEPT ![r].on_loop = 0]
  ELSE /\ Continue(r, a, [runners[r][a] EXCEPT !.pc = "loop", !.login_success = res])
       /\ UNCHANGED <<tasks, completed_count>>

\* lines 257-266: wait_for_login() returns its tuple, or raises
WaitForLoginReturns(r, a) ==
  /\ MayStep(r, a)
  /\ runners[r][a].pc = "wait_login"
  /\ \/ GroupException(r, a)
     \/ \E res \in LoginResults : AfterLoginWait(r, a, res)
  /\ UNCHANGED <<manager_vars, store_vars, login, account_tasks, articles, warnings, running, cancelled, adapters,
                 max_concurrent, total_count, cancel_pending>>

\* lines 269-273 and 289: the loop head reads _cancelled, then
\* _execute_single_task sets the task RUNNING; line 283 when the loop ends
StartTask(r, a) ==
  /\ MayStep(r, a)
  /\ runners[r][a].pc = "loop"
  /\ LET g == Group(tasks, a)
         rn == runners[r][a]
     IN IF rn.idx > Len(g) \/ cancelled
        THEN /\ Finish(r, a)
             /\ UNCHANGED tasks
        ELSE /\ tasks' = [tasks EXCEPT ![g[rn.idx]].status = RUNNING]
             /\ Continue(r, a, [rn EXCEPT !.pc = "exec", !.login_success = <<>>,
                                          !.slept = FALSE])
  /\ UNCHANGED <<manager_vars, store_vars, login, account_tasks, articles, warnings, running, cancelled, adapters,
                 max_concurrent, completed_count, total_count, cancel_pending>>

\* lines 295-300: _execute_single_task reads _cancelled and returns, or awaits
\* publish_article()
CallPublish(r, a) ==
  /\ MayStep(r, a)
  /\ runners[r][a].pc = "exec"
  /\ LET rn == runners[r][a]
     IN IF cancelled
        THEN Continue(r, a, [rn EXCEPT !.pc = "loop", !.idx = @ + 1])
        ELSE Suspend(r, a, [rn EXCEPT !.pc = "publish"])
  /\ UNCHANGED <<manager_vars, store_vars, login, account_tasks, articles, tasks, warnings, running, cancelled, adapters,
                 max_concurrent, completed_count, total_count, cancel_pending>>

\* lines 300-321: publish_article() returns or raises; status, result, progress;
\* then _cancelled is read and the inter-task sleep starts unless it is set
PublishReturns(r, a) ==
  /\ MayStep(r, a)
  /\ runners[r][a].pc = "publish"
  /\ LET rn == runners[r][a]
         i == Group(tasks, a)[rn.idx]
     IN /\ \E outcome \in {"success", "failure", "raises"} :
             /\ tasks' = AfterPublish(tasks, i, outcome)
             /\ articles' = IF outcome = "success"
                            THEN mark_as_published(articles, tasks[i].article)
                            ELSE articles
        /\ completed_count' = completed_count + 1
        /\ IF cancelled
           THEN Continue(r, a, [rn EXCEPT !.pc = "loop", !.idx = @ + 1])
           ELSE Suspend(r, a, [rn EXCEPT !.pc = "delay"])
  /\ UNCHANGED <<manager_vars, store_vars, login, account_tasks, warnings, running, cancelled, adapters, max_concurrent,
                 total_count, cancel_pending>>

\* line 321: asyncio.sleep(random.uniform(2, 5)) is over
DelayElapsed(r, a) ==
  /\ MayStep(r, a)
  /\ runners[r][a].pc = "delay"
  /\ Continue(r, a, [runners[r][a] EXCEPT !.pc = "loop", !.idx = @ + 1,
                                           !.slept = TRUE])
  /\ UNCHANGED <<manager_vars, store_vars, login, account_tasks, articles, tasks, warnings, running, cancelled, adapters,
                 max_concurrent, completed_count, total_count, cancel_pending>>

\* lines 225-234: the gather is over; _running = False, _adapters.clear()
RunReturn(r) ==
  /\ runs[r].phase = "active"
  /\ \A a \in AccountIds : runners[r][a].pc \in {"none", "done"}
  /\ running' = FALSE
  /\ adapters' = [a \in AccountIds |-> "none"]
  /\ runs' = [runs EXCEPT ![r].phase = "returned"]
  /\ runners' = [runners EXCEPT ![r] = [a \in AccountIds |-> NoRunner]]
  /\ UNCHANGED <<manager_vars, store_vars, login, account_tasks, articles, tasks, warnings, cancelled, max_concurrent,
                 completed_count, total_count, cancel_pending>>

\* cancel(), lines 333-345
Cancel ==
  /\ cancelled' = TRUE
  /\ running' = FALSE
  /\ adapters' = [a \in AccountIds |-> IF adapters[a] = "none" THEN "none" ELSE "cancelled"]
  /\ runs' = [r \in RunIds |-> IF runs[r].phase = "active"
                               THEN [runs[r] EXCEPT !.cancel_seen = TRUE]
                               ELSE runs[r]]
  /\ cancel_pending' = IF ActiveRuns # {}
                       THEN {i \in DOMAIN tasks : tasks[i].status = PENDING}
                       ELSE cancel_pending
  /\ UNCHANGED <<manager_vars, store_vars, login, account_tasks, articles, tasks, warnings, max_concurrent,
                 completed_count, total_count, runners>>

\* a faulty variant of Reset: the tasks keep their status and result
ResetKeepsTasks ==
  /\ running' = FALSE
  /\ cancelled' = FALSE
  /\ adapters' = [a \in AccountIds |-> "none"]
  /\ runs' = [r \in RunIds |-> IF runs[r].phase = "active"
                               THEN [runs[r] EXCEPT !.reset_seen = TRUE,
                                                    !.abandoned = runs[r].cancel_seen]
                               ELSE runs[r]]
  /\ cancel_pending' = {}
  /\ UNCHANGED <<manager_vars, store_vars, login, account_tasks, articles, tasks, warnings,
                 max_concurrent, completed_count, total_count, runners>>

\* reset(), lines 347-355
Reset ==
  /\ running' = FALSE
  /\ cancelled' = FALSE
  /\ adapters' = [a \in AccountIds |-> "none"]
  /\ tasks' = [i \in DOMAIN tasks |-> [tasks[i] EXCEPT !.status = PENDING, !.result = NoResult]]
  /\ runs' = [r \in RunIds |-> IF runs[r].phase = "active"
                               THEN [runs[r] EXCEPT !.reset_seen = TRUE,
                                                    !.abandoned = runs[r].cancel_seen]
                               ELSE runs[r]]
  /\ cancel_pending' = {}
  /\ UNCHANGED <<manager_vars, store_vars, login, account_tasks, articles, warnings, max_concurrent, completed_count,
                 total_count, runners>>

\* stop_publish(), main_window.py:651-655: a worker that has not ended two
\* seconds after cancel() is terminated, whatever its runners were doing
TerminateWorker(r) ==
  /\ runs[r].phase = "active"
  /\ runs[r].cancel_seen
  /\ runs' = [runs EXCEPT ![r].phase = "terminated", ![r].on_loop = 0]
  /\ runners' = [runners EXCEPT ![r] = [a \in AccountIds |-> NoRunner]]
  /\ UNCHANGED <<manager_vars, store_vars, login, account_tasks, articles, tasks, warnings, running, cancelled, adapters,
                 max_concurrent, completed_count, total_count, cancel_pending>>

RunnerStep(r, a) ==
  \/ AcquireSemaphore(r, a)
  \/ CallCheckLogin(r, a)
  \/ CheckLoginReturns(r, a)
  \/ WaitForLoginReturns(r, a)
  \/ StartTask(r, a)
  \/ CallPublish(r, a)
  \/ PublishReturns(r, a)
  \/ DelayElapsed(r, a)

(* -------------------------- browser manager --------------------------- *)
\* the event loops the manager is called under (one per worker thread,
\* main_window.py:39-40)
Loops == {1, 2}

\* an engine (playwright + browser), a context or a page: the loop it was
\* created under, what it was created from (parent: the engine of a
\* context, the context of a page), whether it is open, whether it was
\* dropped from the cache because the event loop had changed, and whether a
\* context was opened with the profile's storage_state.json loaded
Handle(kind, account, loop, parent) ==
  [kind |-> kind, account |-> account, loop |-> loop, parent |-> parent,
   open |-> TRUE, discarded |-> FALSE, storage_state |-> FALSE]

\* the manager's fields as one record
Mgr ==
  [current_loop |-> current_loop, initialized |-> initialized, browser |-> browser,
   contexts |-> contexts, pages |-> pages, handles |-> handles]

\* closing h closes what was created from it
Under(hs, h) ==
  {k \in DOMAIN hs : \/ k = h
                      \/ hs[k].parent = h
                      \/ (hs[k].parent # 0 /\ hs[hs[k].parent].parent = h)}

Closed(hs, S) == [k \in DOMAIN hs |-> IF k \in S THEN [hs[k] EXCEPT !.open = FALSE] ELSE hs[k]]

\* the handles the caches hold
Cached(m) ==
  ({m.contexts[a] : a \in Sessions} \cup {m.pages[a] : a \in Sessions}) \ {0}

\* a faulty variant of Cleanup: skip_cleanup is ignored
CleanupAlways(m, skip_cleanup) ==
  IF m.browser = 0 THEN m
  ELSE [m EXCEPT !.handles = Closed(m.handles, Under(m.handles, m.browser))]

\* lines 82-93: the engine whose browser.close() and playwright.stop() are
\* awaited (0: none is, because of skip_cleanup or because none is held)
ShutDown(m, skip_cleanup) == IF skip_cleanup THEN 0 ELSE m.browser

\* browser_manager.py:80-93: browser.close() and playwright.stop(), unless
\* skip_cleanup
Cleanup(m, skip_cleanup) ==
  IF skip_cleanup \/ m.browser = 0 THEN m
  ELSE [m EXCEPT !.handles = Closed(m.handles, Under(m.handles, m.browser))]

\* a faulty variant of DropReferences: the caches keep their entries
KeepReferences(m, skip_cleanup, loop_changed) ==
  LET n == Cleanup(m, skip_cleanup)
  IN [n EXCEPT !.browser = 0,
               !.handles = [k \in DOMAIN n.handles |->
                              IF loop_changed /\ k \in Cached(m)
                              THEN [n.handles[k] EXCEPT !.discarded = TRUE]
                              ELSE n.handles[k]]]

\* lines 80-101: the first half of _force_reinitialize, up to the await of
\* async_playwright().start(): the cleanup and the dropping of every reference
DropReferences(m, skip_cleanup, loop_changed) ==
  LET n == Cleanup(m, skip_cleanup)
  IN [n EXCEPT !.browser = 0,
               !.contexts = [a \in Sessions |-> 0],
               !.pages = [a \in Sessions |-> 0],
               !.handles = [k \in DOMAIN n.handles |->
                              IF loop_changed /\ k \in Cached(m)
                              THEN [n.handles[k] EXCEPT !.discarded = TRUE]
                              ELSE n.handles[k]]]

\* lines 103-114 and the assignment of _current_loop that follows the call
\* (lines 38, 54, 74): the engine is launched under the caller's loop
Launched(m, loop) ==
  [m EXCEPT !.handles = Append(m.handles, Handle("browser", 0, loop, 0)),
            !.browser = Len(m.handles) + 1,
            !.initialized = TRUE,
            !.current_loop = loop]

\* line 45: self._browser.is_connected()
Connected(m) == m.browser # 0 /\ m.handles[m.browser].open

\* line 35: the manager is bound to another loop than the caller's
LoopChanged(m, loop) == m.current_loop # 0 /\ m.current_loop # loop

\* initialize(), lines 28-54, up to its first await: "ready" when it returns
\* at line 47, "launch" when it awaits the launch in _force_reinitialize
\* (shut: the engine it asked to shut down before)
InitializeSync(m, loop) ==
  IF LoopChanged(m, loop)
  THEN [m |-> DropReferences(m, TRUE, TRUE), out |-> "launch",
        shut |-> ShutDown(m, TRUE)]
  ELSE IF m.initialized /\ Connected(m)
  THEN [m |-> m, out |-> "ready", shut |-> 0]
  ELSE [m |-> DropReferences(m, FALSE, FALSE), out |-> "launch",
        shut |-> ShutDown(m, FALSE)]

\* reinitialize_for_new_loop(), lines 56-74, up to its first await
ReinitializeSync(m, loop) ==
  IF m.current_loop = loop /\ m.initialized /\ Connected(m)
  THEN [m |-> m, out |-> "ready", shut |-> 0]
  ELSE [m |-> DropReferences(m, TRUE, LoopChanged(m, loop)), out |-> "launch",
        shut |-> ShutDown(m, TRUE)]

\* get_context(), lines 131-142, after initialize() returned: the cached
\* context is returned ("cached"), or the cache entries are deleted and a
\* context is asked of self._browser ("create"; "error" when there is none).
\* raises: whether `context.pages` raises on a closed context, as line 136
\* expects of the library
ContextLookup(m, a, raises) ==
  IF m.contexts[a] # 0 /\ (m.handles[m.contexts[a]].open \/ ~raises)
  THEN [m |-> m, out |-> "cached"]
  ELSE [m |-> IF m.contexts[a] # 0
              THEN [m EXCEPT !.contexts[a] = 0, !.pages[a] = 0]
              ELSE m,
        out |-> IF m.browser = 0 THEN "error" ELSE "create"]

\* a faulty variant of PageLookup: the cached page is never used
PageLookupNoCache(m, a) == [m |-> [m EXCEPT !.pages[a] = 0], out |-> "context"]

\* get_page(), lines 169-178: the cached page is returned when it is not
\* closed ("cached"), else its entry is deleted ("context")
PageLookup(m, a) ==
  IF m.pages[a] # 0 /\ m.handles[m.pages[a]].open
  THEN [m |-> m, out |-> "cached"]
  ELSE [m |-> [m EXCEPT !.pages[a] = 0], out |-> "context"]

\* the manager's fields after a step
SetMgr(m) ==
  /\ current_loop' = m.current_loop
  /\ initialized' = m.initialized
  /\ browser' = m.browser
  /\ contexts' = m.contexts
  /\ pages' = m.pages
  /\ handles' = m.handles

\* the call of caller c returns handle h (0: None), or raises
Returns(c, h, raised) ==
  calls' = [calls EXCEPT ![c] = [@ EXCEPT !.pc = "return", !.local = 0,
                                          !.result = h, !.raised = raised]]

\* the caller takes what its call returned and goes on
Resume(c) ==
  /\ calls[c].pc = "return"
  /\ calls' = [calls EXCEPT ![c] = NoCall]
  /\ UNCHANGED <<current_loop, initialized, browser, contexts, pages, handles,
                 scheduler_vars, store_vars, profiles>>

\* the call of caller c suspends at an await
Awaits(c, pc, local) ==
  calls' = [calls EXCEPT ![c] = [@ EXCEPT !.pc = pc, !.local = local]]

\* get_context(), lines 144-161: the profile directory is looked up for a
\* storage_state.json, then new_context(**context_options) is awaited
AwaitsNewContext(c, engine) ==
  calls' = [calls EXCEPT ![c] = [@ EXCEPT !.pc = "new_context", !.local = engine,
                                          !.options = profiles[calls[c].account].state_file]]

\* a coroutine calls initialize(), reinitialize_for_new_loop(), get_context(),
\* get_page() or close_all() under its event loop
Call(c, op, loop, a) ==
  /\ calls[c].pc = "idle"
  /\ calls' = [calls EXCEPT ![c] = [NoCall EXCEPT !.op = op, !.pc = "entry",
                                                  !.loop = loop, !.account = a]]
  /\ UNCHANGED <<current_loop, initialized, browser, contexts, pages, handles,
                 scheduler_vars, store_vars, profiles>>

\* what follows initialize() in the caller: nothing more for initialize()
\* and reinitialize_for_new_loop(); lines 131-165 for get_context(), also
\* when get_page() called it (line 180), which then awaits new_page (181)
AfterInitialize(c, m, raises) ==
  IF calls[c].op \in {"initialize", "reinitialize"}
  THEN SetMgr(m) /\ Returns(c, 0, FALSE)
  ELSE LET l == ContextLookup(m, calls[c].account, raises)
       IN /\ SetMgr(l.m)
          /\ CASE l.out = "cached" ->
                    IF calls[c].op = "get_context"
                    THEN Returns(c, m.contexts[calls[c].account], FALSE)
                    ELSE Awaits(c, "new_page", m.contexts[calls[c].account])
               [] l.out = "error" -> Returns(c, 0, TRUE)
               [] l.out = "create" -> AwaitsNewContext(c, l.m.browser)

\* initialize() from its first line, in whichever call runs it
RunInitialize(c, m) ==
  LET i == InitializeSync(m, calls[c].loop)
  IN IF i.out = "launch"
     THEN SetMgr(i.m) /\ Awaits(c, "launch", i.shut)
     ELSE \E raises \in BOOLEAN : AfterInitialize(c, i.m, raises)

\* initialize(), lines 28-54, and get_context(), lines 116-129, run up to
\* their first await
EnterInitialize(c) ==
  /\ calls[c].pc = "entry"
  /\ calls[c].op \in {"initialize", "get_context"}
  /\ RunInitialize(c, Mgr)
  /\ UNCHANGED <<scheduler_vars, store_vars, profiles>>

\* reinitialize_for_new_loop(), lines 56-74, runs up to its first await
EnterReinitialize(c) ==
  /\ calls[c].pc = "entry"
  /\ calls[c].op = "reinitialize"
  /\ LET i == ReinitializeSync(Mgr, calls[c].loop)
     IN IF i.out = "launch"
        THEN SetMgr(i.m) /\ Awaits(c, "launch", i.shut)
        ELSE SetMgr(i.m) /\ Returns(c, 0, FALSE)
  /\ UNCHANGED <<scheduler_vars, store_vars, profiles>>

\* get_page(), lines 167-180, runs up to its first await: the cached page is
\* returned at once, before get_context() and initialize() are reached
EnterGetPage(c) ==
  /\ calls[c].pc = "entry"
  /\ calls[c].op = "get_page"
  /\ LET l == PageLookup(Mgr, calls[c].account)
     IN IF l.out = "cached"
        THEN SetMgr(l.m) /\ Returns(c, pages[calls[c].account], FALSE)
        ELSE RunInitialize(c, l.m)
  /\ UNCHANGED <<scheduler_vars, store_vars, profiles>>

\* lines 103-114: the engine has been launched; initialize() binds the
\* manager to the caller's loop and returns
LaunchDone(c) ==
  /\ calls[c].pc = "launch"
  /\ Len(handles) < MaxHandles
  /\ \E raises \in BOOLEAN : AfterInitialize(c, Launched(Mgr, calls[c].loop), raises)
  /\ UNCHANGED <<scheduler_vars, store_vars, profiles>>

\* lines 161-165: browser.new_context() of the engine read at line 161
\* returns and the context is cached, or raises because that engine is closed
NewContextDone(c) ==
  /\ calls[c].pc = "new_context"
  /\ Len(handles) < MaxHandles
  /\ IF handles[calls[c].local].open
     THEN LET h == Len(handles) + 1
          IN /\ handles' = Append(handles,
                  [Handle("context", calls[c].account, calls[c].loop, calls[c].local)
                     EXCEPT !.storage_state = calls[c].options])
             /\ contexts' = [contexts EXCEPT ![calls[c].account] = h]
             /\ IF calls[c].op = "get_context"
                THEN Returns(c, h, FALSE)
                ELSE Awaits(c, "new_page", h)
     ELSE /\ Returns(c, 0, TRUE)
          /\ UNCHANGED <<handles, contexts>>
  /\ UNCHANGED <<current_loop, initialized, browser, pages, scheduler_vars, store_vars, profiles>>

\* lines 181-184: context.new_page() returns and the page is cached, or
\* raises because the context is closed
NewPageDone(c) ==
  /\ calls[c].pc = "new_page"
  /\ Len(handles) < MaxHandles
  /\ IF handles[calls[c].local].open
     THEN LET h == Len(handles) + 1
          IN /\ handles' = Append(handles, Handle("page", calls[c].account,
                                                   calls[c].loop, calls[c].local))
             /\ pages' = [pages EXCEPT ![calls[c].account] = h]
             /\ Returns(c, h, FALSE)
     ELSE /\ Returns(c, 0, TRUE)
          /\ UNCHANGED <<handles, pages>>
  /\ UNCHANGED <<current_loop, initialized, browser, contexts, scheduler_vars,
                 store_vars, profiles>>

\* close_all(), lines 229-239: no engine is held and the manager is unbound
Unbound(m) == [m EXCEPT !.browser = 0, !.initialized = FALSE, !.current_loop = 0]

\* close_all() from line 224: awaits browser.close() of the engine it holds,
\* or returns at once when it holds none
FromEngine(c, m) ==
  IF m.browser # 0
  THEN SetMgr(m) /\ Awaits(c, "engine", m.browser)
  ELSE SetMgr(Unbound(m)) /\ Returns(c, 0, FALSE)

\* close_all() from line 217: awaits the close() of the cached contexts, or
\* goes on to the engine when there is none
FromContexts(c, m) ==
  IF \E a \in Sessions : m.contexts[a] # 0
  THEN SetMgr(m) /\ Awaits(c, "contexts", 0)
  ELSE FromEngine(c, m)

\* close_all(), lines 208-212, up to its first await
EnterCloseAll(c) ==
  /\ calls[c].pc = "entry"
  /\ calls[c].op = "close_all"
  /\ IF \E a \in Sessions : pages[a] # 0
     THEN SetMgr(Mgr) /\ Awaits(c, "pages", 0)
     ELSE FromContexts(c, Mgr)
  /\ UNCHANGED <<scheduler_vars, store_vars, profiles>>

\* lines 210-215: every cached page was asked to close (ok: it did; a
\* failure is swallowed at line 213) and the page cache is cleared
PagesClosed(c) ==
  /\ calls[c].pc = "pages"
  /\ \E ok \in BOOLEAN :
       LET S == IF ok THEN {pages[a] : a \in Sessions} \ {0} ELSE {}
       IN FromContexts(c, [Mgr EXCEPT !.handles = Closed(handles, S),
                                      !.pages = [a \in Sessions |-> 0]])
  /\ UNCHANGED <<scheduler_vars, store_vars, profiles>>

\* lines 217-222: the same for the cached contexts; closing a context
\* closes its pages
ContextsClosed(c) ==
  /\ calls[c].pc = "contexts"
  /\ \E ok \in BOOLEAN :
       LET S == IF ok
                THEN UNION {Under(handles, contexts[a]) : a \in {b \in Sessions : contexts[b] # 0}}
                ELSE {}
       IN FromEngine(c, [Mgr EXCEPT !.handles = Closed(handles, S),
                                    !.contexts = [a \in Sessions |-> 0]])
  /\ UNCHANGED <<scheduler_vars, store_vars, profiles>>

\* lines 224-240: the engine awaited at line 226 was asked to close (a
\* failure is swallowed), the references are dropped and close_all() returns
EngineClosed(c) ==
  /\ calls[c].pc = "engine"
  /\ \E ok \in BOOLEAN :
       LET S == IF ok THEN Under(handles, calls[c].local) ELSE {}
       IN SetMgr(Unbound([Mgr EXCEPT !.handles = Closed(handles, S)]))
  /\ Returns(c, 0, FALSE)
  /\ UNCHANGED <<scheduler_vars, store_vars, profiles>>

\* save_storage_state(), lines 186-194, up to its await: it returns at once
\* when the account has no cached context (lines 188-189)
EnterSaveStorageState(c) ==
  /\ calls[c].pc = "entry"
  /\ calls[c].op = "save_storage_state"
  /\ IF contexts[calls[c].account] = 0
     THEN Returns(c, 0, FALSE)
     ELSE Awaits(c, "storage_state", contexts[calls[c].account])
  /\ UNCHANGED <<current_loop, initialized, browser, contexts, pages, handles,
                 scheduler_vars, store_vars, profiles>>

\* lines 194-195: context.storage_state(path=...) writes the file and
\* returns, or raises: it raises on a closed context, and on a context
\* of another event loop it may do either
StorageStateDone(c) ==
  /\ calls[c].pc = "storage_state"
  /\ LET h == calls[c].local
         a == calls[c].account
     IN \E ok \in BOOLEAN :
          /\ ok => handles[h].open
          /\ ~ok => ~handles[h].open \/ handles[h].loop # calls[c].loop
          /\ profiles' = [profiles EXCEPT ![a].state_file = @ \/ ok, ![a].saved = TRUE]
          /\ Returns(c, 0, ~ok)
  /\ UNCHANGED <<current_loop, initialized, browser, contexts, pages, handles,
                 scheduler_vars, store_vars>>

\* the user closes a browser window, or the browser process dies: the
\* handle and what was created from it are closed behind the manager's back
ClosedOutside(h) ==
  /\ h \in DOMAIN handles
  /\ handles[h].open
  /\ handles' = Closed(handles, Under(handles, h))
  /\ UNCHANGED <<current_loop, initialized, browser, contexts, pages, calls,
                 scheduler_vars, store_vars, profiles>>

(* --------------------------- account store ---------------------------- *)
\* the platform tags and index numbers found in the ids of an accounts.json
StorePlatforms == {"toutiao", "sohu"}
StoreIds == {<<p, n>> : p \in StorePlatforms, n \in 1..MaxStored}

\* an account row: its id "<platform>_<n>" and its platform
Row(id, platform) == [id |-> id, platform |-> platform]

\* config.py:146: existing_ids
ExistingIds(rows) == {rows[k].id : k \in DOMAIN rows}

\* a faulty variant of NextFreeIndex: the id is not compared with the others
FirstIndex(platform, n, ids) == n

\* config.py:147-150: the while loop that steps over the ids in use
RECURSIVE NextFreeIndex(_, _, _)
NextFreeIndex(platform, n, ids) ==
  IF <<platform, n>> \in ids THEN NextFreeIndex(platform, n + 1, ids) ELSE n

\* config.py:136-142: platform_accounts, new_index and account_id
NewAccountId(rows, platform) ==
  LET platform_accounts == {k \in DOMAIN rows : rows[k].platform = platform}
      new_index == Cardinality(platform_accounts) + 1
  IN <<platform, NextFreeIndex(platform, new_index, ExistingIds(rows))>>

\* config.py:181-187: the rows delete_account(id) keeps
RECURSIVE WithoutId(_, _)
WithoutId(rows, id) ==
  IF rows = <<>> THEN <<>>
  ELSE (IF Head(rows).id # id THEN <<Head(rows)>> ELSE <<>>) \o WithoutId(Tail(rows), id)

\* config.py:110: account_map[id], the row of that id a dict comprehension
\* keeps (the last one)
AccountMap(rows, id) ==
  rows[CHOOSE k \in DOMAIN rows :
         rows[k].id = id /\ \A j \in DOMAIN rows : rows[j].id = id => j <= k]

\* config.py:113-116: one row for every entry of new_order that is a known id
RECURSIVE Listed(_, _)
Listed(rows, new_order) ==
  IF new_order = <<>> THEN <<>>
  ELSE (IF Head(new_order) \in ExistingIds(rows)
        THEN <<AccountMap(rows, Head(new_order))>>
        ELSE <<>>) \o Listed(rows, Tail(new_order))

\* config.py:119-121: the rows whose id is not in new_order, in their order
RECURSIVE NotListed(_, _)
NotListed(rows, new_order) ==
  IF rows = <<>> THEN <<>>
  ELSE (IF \E k \in DOMAIN new_order : new_order[k] = Head(rows).id
        THEN <<>>
        ELSE <<Head(rows)>>) \o NotListed(Tail(rows), new_order)

\* Config.reorder_accounts(new_order), config.py:103-124
ReorderAccounts(new_order) ==
  /\ store' = Listed(store, new_order) \o NotListed(store, new_order)
  /\ UNCHANGED <<new_account, scheduler_vars, manager_vars>>

\* Config.add_account(platform), config.py:126-172
AddAccount(platform) ==
  /\ Len(store) < MaxStored
  /\ LET account_id == NewAccountId(store, platform)
     IN /\ store' = Append(store, Row(account_id, platform))
        /\ new_account' = account_id
  /\ UNCHANGED <<scheduler_vars, manager_vars>>

\* Config.delete_account(account_id), config.py:174-204: False and no change
\* when no row has the id
DeleteAccount(id) ==
  /\ store' = IF id \in ExistingIds(store) THEN WithoutId(store, id) ELSE store
  /\ UNCHANGED <<new_account, scheduler_vars, manager_vars>>

(* --------------------------- specifications --------------------------- *)
\* no worker is publishing: start_publish() is reachable (main_window.py:586)
Idle == ActiveRuns = {}

\* the task list is as generate_tasks() or reset() left it
Fresh == \A i \in DOMAIN tasks : tasks[i].status = PENDING

\* the stop button is live: a worker is publishing and was not yet stopped
Stoppable == \E r \in ActiveRuns : ~runs[r].cancel_seen

\* The program as main_window.py drives the scheduler: start_publish()
\* (generate_tasks, reset, then run on a new worker unless the list is empty,
\* lines 594-597) only while no worker is publishing, stop_publish() (cancel,
\* then join or terminate) while one is.
Next ==
  \/ Idle /\ GenerateTasks
  \/ \E count \in ConcurrentInputs : Idle /\ SetMaxConcurrent(count)
  \/ Idle /\ Reset
  \/ Idle /\ Fresh /\ tasks # <<>> /\ Run
  \/ \E r \in RunIds, a \in AccountIds : RunnerStep(r, a)
  \/ \E r \in RunIds : RunReturn(r)
  \/ Stoppable /\ Cancel
  \/ \E r \in RunIds : TerminateWorker(r)

Spec == Init /\ [][Next]_vars

\* The same program when a stopped worker is left to end by itself, under
\* the scheduling of its event loop: a group that can take a step (it holds
\* the loop, its adapter call has returned or raised, its sleep is over, the
\* semaphore is free) is eventually run, and so is the rest of run() once
\* the gather is complete.
LiveNext ==
  \/ Idle /\ GenerateTasks
  \/ \E count \in ConcurrentInputs : Idle /\ SetMaxConcurrent(count)
  \/ Idle /\ Reset
  \/ Idle /\ Fresh /\ tasks # <<>> /\ Run
  \/ \E r \in RunIds, a \in AccountIds : RunnerStep(r, a)
  \/ \E r \in RunIds : RunReturn(r)
  \/ Stoppable /\ Cancel

SpecLive ==
  /\ Init
  /\ [][LiveNext]_vars
  /\ WF_vars(\E r \in RunIds, a \in AccountIds : RunnerStep(r, a))
  /\ WF_vars(\E r \in RunIds : RunReturn(r))

\* One account with one task, generated and published again and again,
\* while set_max_concurrent() is called with any integer at any time.
CountInputs == (0 - MaxCountInput)..MaxCountInput

ConcurrentInit ==
  /\ account_tasks = <<AccountTask(1, "toutiao", 1, TRUE)>>
  /\ articles = <<Article(1)>>
  /\ Constructed
  /\ ManagerConstructed
  /\ StoreEmpty

ConcurrentNext ==
  \/ Idle /\ GenerateTasks
  \/ \E count \in CountInputs : SetMaxConcurrent(count)
  \/ Idle /\ Fresh /\ tasks # <<>> /\ Run
  \/ \E r \in RunIds, a \in AccountIds : RunnerStep(r, a)
  \/ \E r \in RunIds : RunReturn(r)

SpecConcurrent == ConcurrentInit /\ [][ConcurrentNext]_vars

\* every run() still active was cancelled and the scheduler then reset
StartedOver == \A q \in ActiveRuns : runs[q].abandoned

\* A caller of the public methods: it resets and cancels at any time, and
\* starts a run on a list no runner has touched once it has cancelled and
\* reset whatever it started before; run() itself refuses while is_running.
ApiNext ==
  \/ Idle /\ GenerateTasks
  \/ Reset
  \/ Fresh /\ StartedOver /\ Run
  \/ \E r \in RunIds, a \in AccountIds : RunnerStep(r, a)
  \/ \E r \in RunIds : RunReturn(r)
  \/ Cancel

SpecApi == ApiInit /\ [][ApiNext]_vars

\* the account store under add_account() and delete_account(), from every
\* accounts.json of at most two rows whose ids are pairwise distinct (the
\* platform of a row need not be the one its id names)
StoreInit ==
  /\ \E n \in 0..2 :
       \E ids \in [1..n -> StoreIds], ps \in [1..n -> StorePlatforms] :
         /\ \A i, j \in 1..n : ids[i] = ids[j] => i = j
         /\ store = [k \in 1..n |-> Row(ids[k], ps[k])]
  /\ new_account = <<>>
  /\ account_tasks = <<>>
  /\ articles = <<>>
  /\ Constructed
  /\ ManagerConstructed

StoreNext ==
  \/ \E platform \in StorePlatforms : AddAccount(platform)
  \/ \E id \in StoreIds : DeleteAccount(id)

SpecStore == StoreInit /\ [][StoreNext]_vars

\* reorder_accounts() applied to every store of at most two accounts, with
\* every list of at most MaxOrder ids, known or not, repeated or not
Orders == UNION {[1..n -> StoreIds] : n \in 0..MaxOrder}

ReorderNext == \E new_order \in Orders : ReorderAccounts(new_order)

SpecReorder == StoreInit /\ [][ReorderNext]_vars

\* generate_tasks() applied to every configuration
GenNext == GenerateTasks

SpecGen == GenInit /\ [][GenNext]_vars

\* the browser manager alone, called by coroutines of the workers' event loops
BrowserOps == {"initialize", "reinitialize", "get_context", "get_page", "close_all"}

BrowserInit ==
  /\ Constructed
  /\ account_tasks = <<>>
  /\ articles = <<>>
  /\ ManagerConstructed
  /\ StoreEmpty

\* a return and the caller's next statement are one step of its coroutine:
\* nothing runs between them
Resumed == \A c \in Callers : calls[c].pc # "return"

\* caller 1 is the coroutine of a worker (a publish run's group, a login
\* task); caller 2 is the stop sequence, which runs close_all() beside it on
\* the worker's loop or on a loop of its own (main_window.py:619-660)
CallerOps(c) == IF c = 1 THEN BrowserOps ELSE {"close_all"}

\* the account the worker's coroutine asks the manager for
Asked == 1

BrowserNext ==
  \/ \E c \in Callers, op \in BrowserOps, loop \in Loops :
       /\ Resumed
       /\ op \in CallerOps(c)
       /\ Call(c, op, loop, IF op \in {"get_context", "get_page"} THEN Asked ELSE 0)
  \/ \E c \in Callers : Resumed /\ EnterInitialize(c)
  \/ \E c \in Callers : Resumed /\ EnterReinitialize(c)
  \/ \E c \in Callers : Resumed /\ EnterGetPage(c)
  \/ \E c \in Callers : Resumed /\ LaunchDone(c)
  \/ \E c \in Callers : Resumed /\ NewContextDone(c)
  \/ \E c \in Callers : Resumed /\ NewPageDone(c)
  \/ \E c \in Callers : Resumed /\ EnterCloseAll(c)
  \/ \E c \in Callers : Resumed /\ PagesClosed(c)
  \/ \E c \in Callers : Resumed /\ ContextsClosed(c)
  \/ \E c \in Callers : Resumed /\ EngineClosed(c)
  \/ \E h \in 1..MaxHandles : Resumed /\ ClosedOutside(h)
  \/ \E c \in Callers : Resume(c)

SpecBrowser == BrowserInit /\ [][BrowserNext]_vars

\* The groups of a publish run: each caller is the group of one account and
\* asks for that account's context or page (base_adapter.py:58-67); the
\* groups of a run share its event loop, the next run has another; the
\* engine may die at any time.
GroupOps == {"get_context", "get_page"}

\* no call of another group is in progress under another loop
SameLoop(c, loop) ==
  \A d \in Callers \ {c} : calls[d].pc # "idle" => calls[d].loop = loop

GroupsNext ==
  \/ \E c \in Callers, op \in GroupOps, loop \in Loops :
       Resumed /\ SameLoop(c, loop) /\ Call(c, op, loop, c)
  \/ \E c \in Callers : Resumed /\ EnterInitialize(c)
  \/ \E c \in Callers : Resumed /\ EnterGetPage(c)
  \/ \E c \in Callers : Resumed /\ LaunchDone(c)
  \/ \E c \in Callers : Resumed /\ NewContextDone(c)
  \/ \E c \in Callers : Resumed /\ NewPageDone(c)
  \/ \E h \in 1..MaxHandles : Resumed /\ ClosedOutside(h)
  \/ \E c \in Callers : Resume(c)

SpecGroups == BrowserInit /\ [][GroupsNext]_vars

\* One coroutine at a time uses the manager for either account: it asks
\* for contexts and pages, saves the storage state, closes everything, under
\* either loop, while contexts and engines may be closed from outside.
ProfileOps == {"get_context", "get_page", "save_storage_state", "close_all"}

ProfilesNext ==
  \/ \E op \in ProfileOps, loop \in Loops, a \in Sessions :
       Resumed /\ Call(1, op, loop, IF op = "close_all" THEN 0 ELSE a)
  \/ \E c \in Callers : Resumed /\ EnterInitialize(c)
  \/ \E c \in Callers : Resumed /\ EnterGetPage(c)
  \/ \E c \in Callers : Resumed /\ LaunchDone(c)
  \/ \E c \in Callers : Resumed /\ NewContextDone(c)
  \/ \E c \in Callers : Resumed /\ NewPageDone(c)
  \/ \E c \in Callers : Resumed /\ EnterSaveStorageState(c)
  \/ \E c \in Callers : Resumed /\ StorageStateDone(c)
  \/ \E c \in Callers : Resumed /\ EnterCloseAll(c)
  \/ \E c \in Callers : Resumed /\ PagesClosed(c)
  \/ \E c \in Callers : Resumed /\ ContextsClosed(c)
  \/ \E c \in Callers : Resumed /\ EngineClosed(c)
  \/ \E h \in 1..MaxHandles : Resumed /\ ClosedOutside(h)
  \/ \E c \in Callers : Resume(c)

SpecProfiles == BrowserInit /\ [][ProfilesNext]_vars

\* A publish run of one account together with the browser manager its
\* adapter uses, and the stop sequence of stop_publish() (main_window.py:
\* 619-660): scheduler.cancel() from the UI thread, close_all() scheduled on
\* the worker's loop, then the wait for the worker, which is terminated when
\* it has not ended.  Caller 1 of the manager is the account's group, caller
\* 2 the stop sequence; the worker's loop is loop 1.

\* the group is inside check_login_status(), wait_for_login() or
\* publish_article(), each of which calls BaseAdapter.get_page()
\* (toutiao_adapter.py:78, 144; base_adapter.py:58-67)
InAdapterCall ==
  /\ runs[1].phase = "active"
  /\ runners[1][1].pc \in {"check_login", "wait_login", "publish"}

\* base_adapter.py:63-65: the adapter asks the manager for its page
AdapterGetPage ==
  /\ InAdapterCall
  /\ Call(1, "get_page", 1, 1)

\* the group's coroutine is not inside a call of the manager
GroupResumed == calls[1].pc = "idle"

\* the group's call of the manager is not at its return
GroupCallPending == calls[1].pc # "return" /\ runs[1].phase = "active"

\* close_all() of the stop sequence has completed
StopDone == calls[2].pc = "return"

\* main_window.py:623-638: close_all() is scheduled once cancel() has returned
StopCloseAll ==
  /\ runs[1].cancel_seen
  /\ Call(2, "close_all", 1, 0)

StopNext ==
  \/ runs[1].phase = "free" /\ GenerateTasks
  \/ runs[1].phase = "free" /\ tasks # <<>> /\ Run
  \/ GroupResumed /\ RunnerStep(1, 1)
  \/ GroupResumed /\ RunReturn(1)
  \/ GroupResumed /\ AdapterGetPage
  \/ GroupCallPending /\ EnterGetPage(1)
  \/ GroupCallPending /\ LaunchDone(1)
  \/ GroupCallPending /\ NewContextDone(1)
  \/ GroupCallPending /\ NewPageDone(1)
  \/ runs[1].phase = "active" /\ Resume(1)
  \/ Stoppable /\ Cancel
  \/ GroupCallPending /\ StopCloseAll
  \/ GroupCallPending /\ EnterCloseAll(2)
  \/ GroupCallPending /\ PagesClosed(2)
  \/ GroupCallPending /\ ContextsClosed(2)
  \/ GroupCallPending /\ EngineClosed(2)
  \/ StopDone /\ TerminateWorker(1)

SpecStop == ApiInit /\ [][StopNext]_vars

\* One call of an adapter's wait_for_login(), by a group of a publish run or
\* by a login task, with cancel() arriving from the stop button at any time.
LoginStep ==
  \/ GetPageReturns
  \/ GotoReturns
  \/ SleepElapsed
  \/ SaveLoginStateReturns
  \/ NicknameReturns

LoginNext ==
  \/ \E platform \in LoginPlatforms : WaitForLogin(platform)
  \/ LoginStep
  \/ AdapterCancel

SpecLogin == BrowserInit /\ [][LoginNext]_vars

(* ------------------------------ claims -------------------------------- *)
\* S: the sum of publish_count over the accounts that are enabled and have a
\* positive publish_count
RECURSIVE TotalQuota(_)
TotalQuota(accs) ==
  IF accs = <<>> THEN 0
  ELSE (IF Head(accs).enabled /\ Head(accs).publish_count > 0
        THEN Head(accs).publish_count ELSE 0) + TotalQuota(Tail(accs))

\* the position of an account in the configured order
AccountPos(id) == CHOOSE k \in DOMAIN account_tasks : account_tasks[k].account_id = id

\* no article is referenced by two tasks of the list
NoArticleTwice(ts) ==
  \A i, j \in DOMAIN ts : ts[i].article = ts[j].article => i = j

\* C1: for every account configuration and every article list,
\* generate_tasks() returns exactly min(S, A) tasks, S the summed quota of the
\* enabled accounts with a positive quota and A the number of articles.
C1_TaskCount ==
  [][GenerateTasks =>
       Len(tasks') = Min(TotalQuota(account_tasks), Len(articles))]_vars

\* generate_tasks() has run with a disabled account that asks for articles
\* and with fewer articles than the enabled quota
C1_Witness ==
  /\ tasks # <<>>
  /\ Len(tasks) = Len(articles)
  /\ TotalQuota(account_tasks) > Len(articles)
  /\ \E k \in DOMAIN account_tasks :
       ~account_tasks[k].enabled /\ account_tasks[k].publish_count > 0

\* C2: in the list one generate_tasks() call returns, the i-th task holds the
\* i-th article (one cursor for all accounts), the tasks follow the
\* configured account order with each account's tasks contiguous, and no
\* article is referenced by two tasks.
C2_Order ==
  [][GenerateTasks =>
       /\ \A i \in DOMAIN tasks' : tasks'[i].article = i
       /\ \A i, j \in DOMAIN tasks' :
            i < j => AccountPos(tasks'[i].account_id) <= AccountPos(tasks'[j].account_id)
       /\ \A i, j, k \in DOMAIN tasks' :
            (i < j /\ j < k /\ tasks'[i].account_id = tasks'[k].account_id)
              => tasks'[j].account_id = tasks'[i].account_id
       /\ NoArticleTwice(tasks')]_vars

\* three tasks over two accounts: the second account's first task comes after
\* two tasks of the first and holds the third article
C2_Witness ==
  /\ Len(tasks) = 3
  /\ tasks[1].account_id = tasks[2].account_id
  /\ tasks[3].account_id # tasks[1].account_id
  /\ tasks[3].article = 3

\* C3: when the quota of an enabled account cannot be served because the
\* articles are exhausted, generate_tasks() stops assigning without wrapping
\* around (every task holds a loaded article, none twice), logs a shortage
\* warning and returns its list; when every quota can be served it logs none.
C3_Shortage ==
  [][GenerateTasks =>
       /\ (warnings' > 0) <=> (TotalQuota(account_tasks) > Len(articles))
       /\ \A i \in DOMAIN tasks' : tasks'[i].article \in DOMAIN articles
       /\ NoArticleTwice(tasks')
       /\ Len(tasks') <= Len(articles)]_vars

\* a shortage: the list ends at the last article and a warning was logged
C3_Witness ==
  /\ warnings > 0
  /\ tasks # <<>>
  /\ Len(tasks) = Len(articles)
  /\ TotalQuota(account_tasks) > Len(articles)

\* C4: in every reachable state, no two tasks of the same account are RUNNING.
C4_NoTwoRunningSameAccount ==
  \A i, j \in DOMAIN tasks :
    (i # j /\ tasks[i].account_id = tasks[j].account_id)
      => ~(tasks[i].status = RUNNING /\ tasks[j].status = RUNNING)

\* C5: during a run with max_concurrent = k, at most k group runners are
\* inside the semaphore-protected section; the other groups wait.
C5_SemaphoreBound ==
  \A r \in ActiveRuns :
    /\ runs[r].semaphore = max_concurrent
    /\ Cardinality(InSection(r)) <= max_concurrent

\* k = 1 with two groups: one runner holds the semaphore, the other waits
C5_Witness ==
  \E r \in ActiveRuns :
    /\ max_concurrent = 1
    /\ Cardinality(InSection(r)) = 1
    /\ \E a \in AccountIds : runners[r][a].pc = "wait"

\* C6: a task that is PENDING when cancel() hits a run never becomes SUCCESS
\* or FAILED, and is CANCELLED at the latest when that run has returned.
C6_PendingAtCancelEndCancelled ==
  \A i \in cancel_pending :
    /\ tasks[i].status \notin {SUCCESS, FAILED}
    /\ (\E r \in RunIds : runs[r].phase = "returned" /\ runs[r].cancel_seen)
         => tasks[i].status = CANCELLED

\* wait_for_login() of group a of run r returns a failure pair in this step
\* and no cancellation occurred
LoginReportedFailure(r, a) ==
  /\ runners[r][a].pc = "wait_login"
  /\ ~cancelled
  /\ runners'[r][a].login_success # <<>>
  /\ runners'[r][a].login_success[1] = FALSE

\* C7: when wait_for_login() reports failure and no cancellation occurred,
\* every task of the group is FAILED with the login-timeout message, the
\* runner ends without calling publish_article(), and the tasks of the other
\* accounts are untouched.
C7_LoginFailureFailsGroup ==
  [][\A r \in RunIds, a \in AccountIds :
       LoginReportedFailure(r, a) =>
         /\ runners'[r][a].pc = "done"
         /\ \A i \in DOMAIN tasks :
              IF tasks[i].account_id = a
              THEN /\ tasks'[i].status = FAILED
                   /\ tasks'[i].result = Result(FALSE, "login_timeout")
              ELSE tasks'[i] = tasks[i]]_vars

\* a status never moves backwards: PENDING only from PENDING, and SUCCESS,
\* FAILED and CANCELLED are final
Forward(old, new) ==
  \/ new = old
  \/ old = PENDING
  \/ old = RUNNING /\ new \in {SUCCESS, FAILED, CANCELLED}

\* C8: between a run's start and the next reset() or generate_tasks(), no
\* task returns to PENDING and no SUCCESS, FAILED or CANCELLED task changes.
C8_StatusMonotonic ==
  [][\/ Reset
     \/ GenerateTasks
     \/ /\ DOMAIN tasks' = DOMAIN tasks
        /\ \A i \in DOMAIN tasks : Forward(tasks[i].status, tasks'[i].status)]_vars

\* C9: when a run() returns during which cancel() was never called (nor the
\* task list reset), every task is SUCCESS or FAILED.
C9_UncancelledRunCompletes ==
  [][\A r \in RunIds :
       (RunReturn(r) /\ ~runs[r].cancel_seen /\ ~runs[r].reset_seen)
         => \A i \in DOMAIN tasks' : tasks'[i].status \in {SUCCESS, FAILED}]_vars

\* C10: when an exception is raised in a group (adapter resolution, login
\* check, login wait), the group's PENDING tasks become FAILED with the
\* exception text, every other task keeps its status and result, and the
\* run goes on: the other runners are untouched and the run stays active.
C10_GroupExceptionIsolated ==
  [][\A r \in RunIds, a \in AccountIds :
       (MayStep(r, a) /\ GroupException(r, a)) =>
         /\ \A i \in DOMAIN tasks :
              IF tasks[i].account_id = a /\ tasks[i].status = PENDING
              THEN /\ tasks'[i].status = FAILED
                   /\ tasks'[i].result = Result(FALSE, "exception")
              ELSE tasks'[i] = tasks[i]
         /\ runs'[r].phase = "active"
         /\ runners'[r][a].pc = "done"
         /\ \A b \in AccountIds \ {a} : runners'[r][b] = runners[r][b]]_vars

\* one group was failed by an exception while a task of another account
\* was published
C10_Witness ==
  \E i, j \in DOMAIN tasks :
    /\ tasks[i].status = FAILED
    /\ tasks[i].result = Result(FALSE, "exception")
    /\ tasks[j].account_id # tasks[i].account_id
    /\ tasks[j].status = SUCCESS

\* in this step publish_article() of the current task of group a of run r
\* returns success = false or raises
PublishFailed(r, a) ==
  /\ runners[r][a].pc = "publish"
  /\ runners'[r][a].pc \in {"delay", "loop"}
  /\ tasks'[Group(tasks, a)[runners[r][a].idx]].status = FAILED

\* C11: when publish_article() of one task fails or raises, only that task
\* changes (it becomes FAILED; SUCCESS tasks keep their status), and absent
\* cancellation the group goes on: the runner sleeps, moves to the next
\* task of the group and sets it RUNNING.
C11_PublishFailureIsolated ==
  [][\A r \in RunIds, a \in AccountIds :
       LET rn == runners[r][a]
           g == Group(tasks, a)
       IN /\ PublishFailed(r, a) =>
               /\ \A i \in DOMAIN tasks : i # g[rn.idx] => tasks'[i] = tasks[i]
               /\ ~tasks'[g[rn.idx]].result.success
               /\ ~cancelled => runners'[r][a] = [rn EXCEPT !.pc = "delay"]
          /\ (rn.pc = "delay" /\ runners'[r][a].pc = "loop") =>
               runners'[r][a].idx = rn.idx + 1
          /\ (rn.pc = "loop" /\ runners'[r][a].pc \in {"exec", "done"}
                /\ ~cancelled /\ rn.idx <= Len(g)) =>
               /\ runners'[r][a].pc = "exec"
               /\ runners'[r][a].idx = rn.idx
               /\ tasks'[g[rn.idx]].status = RUNNING]_vars

\* the first task of a group failed at publishing, the second was published
C11_Witness ==
  \E i, j \in DOMAIN tasks :
    /\ i < j
    /\ tasks[i].account_id = tasks[j].account_id
    /\ tasks[i].status = FAILED
    /\ tasks[i].result.message \in {"publish_failed", "publish_exception"}
    /\ tasks[j].status = SUCCESS
    /\ ~cancelled

\* a call of get_context() or get_page() that is returning a handle
ReturnsHandle(c) ==
  /\ calls[c].pc = "return"
  /\ calls[c].op \in {"get_context", "get_page"}
  /\ calls[c].result # 0

\* C12: once initialize() has run under another event loop than the bound one,
\* the contexts and pages that were cached at that moment are in neither cache,
\* and no get_context() or get_page() returns one of them
C12_DroppedNeverReturned ==
  /\ \A h \in Cached(Mgr) : ~handles[h].discarded
  /\ \A c \in Callers : ReturnsHandle(c) => ~handles[calls[c].result].discarded

\* a handle is returned after the handles of the account were dropped on a
\* change of loop
C12_Witness ==
  \E c \in Callers :
    /\ ReturnsHandle(c)
    /\ \E h \in DOMAIN handles :
         handles[h].discarded /\ handles[h].account = calls[c].account

\* the open handles of one kind the manager created for account a
OpenHandles(kind, a) ==
  {h \in DOMAIN handles :
     handles[h].kind = kind /\ handles[h].account = a /\ handles[h].open}

\* C13: for each account at most one context and at most one page created by
\* the manager is open, the handles dropped from the cache included
C13_OneOpenHandlePerAccount ==
  \A a \in Sessions, kind \in {"context", "page"} :
    Cardinality(OpenHandles(kind, a)) <= 1

\* C14: a handle returned by get_page() or get_context() was created under
\* the event loop of the caller it is returned to: a page or context cached
\* under another loop is never handed out
C14_ReturnedUnderCallersLoop ==
  \A c \in Callers :
    ReturnsHandle(c) => handles[calls[c].result].loop = calls[c].loop

\* C17: close_all() does not raise, and when it returns both caches are
\* empty, no engine is held and the manager is unbound, so that initialize()
\* under any loop launches an engine
C17_CloseAllPostcondition ==
  \A c \in Callers :
    calls[c].pc = "return" /\ calls[c].op = "close_all" =>
      /\ ~calls[c].raised
      /\ \A a \in Sessions : contexts[a] = 0 /\ pages[a] = 0
      /\ browser = 0
      /\ ~initialized
      /\ current_loop = 0
      /\ \A loop \in Loops : InitializeSync(Mgr, loop).out = "launch"

\* C15: after reset() the cancellation flag and is_running are false, no
\* adapter is resolved, and every task of the list is PENDING without a
\* result, whatever the state before the call.
C15_ResetPostcondition ==
  [][Reset =>
       /\ ~cancelled'
       /\ ~running'
       /\ \A a \in AccountIds : adapters'[a] = "none"
       /\ DOMAIN tasks' = DOMAIN tasks
       /\ \A i \in DOMAIN tasks' :
            /\ tasks'[i].status = PENDING
            /\ tasks'[i].result = NoResult
            /\ tasks'[i].account_id = tasks[i].account_id
            /\ tasks'[i].article = tasks[i].article]_vars

\* reset() was called in the middle of a run that had completed tasks
C15_Witness ==
  /\ \E r \in ActiveRuns : runs[r].reset_seen
  /\ completed_count > 0
  /\ tasks # <<>>
  /\ \A i \in DOMAIN tasks : tasks[i].status = PENDING /\ tasks[i].result = NoResult
  /\ ~cancelled /\ ~running
  /\ \A a \in AccountIds : adapters[a] = "none"

\* the tasks a run has finished
Finished == {i \in DOMAIN tasks : tasks[i].status \in {SUCCESS, FAILED}}

\* C16: a run started after reset() shows nothing of the completed or
\* cancelled run before it: while it is active (and the list was not reset
\* under it) the progress count is the number of tasks it has finished,
\* every finished task has a result, and the cancellation flag is set only
\* if cancel() was called on it.
C16_SecondRunIndependent ==
  \A r \in ActiveRuns :
    ~runs[r].reset_seen =>
      /\ completed_count = Cardinality(Finished)
      /\ \A i \in Finished : tasks[i].result.present
      /\ cancelled => runs[r].cancel_seen

\* C18: run() on an empty task list does not complete normally.
C18_EmptyRunIsAnError ==
  [][\A r \in RunIds : RunReturn(r) => total_count > 0]_vars

\* C19: generate_tasks() generates no task for an account whose platform has
\* no adapter in the scheduler.
C19_NoTaskForUnsupportedPlatform ==
  [][GenerateTasks =>
       \A i \in DOMAIN tasks' : tasks'[i].platform \in SupportedPlatforms]_vars

\* the ids of the rows are pairwise distinct
DistinctIds(rows) == \A i, j \in DOMAIN rows : rows[i].id = rows[j].id => i = j

\* C20: from an accounts.json whose ids are pairwise distinct, every
\* add_account() and delete_account() leaves the ids pairwise distinct, and
\* add_account() returns, as the id of the row it appends, an id no row held
\* when it was called.
C20_UniqueAccountIds ==
  [][/\ DistinctIds(store) => DistinctIds(store')
     /\ \A platform \in StorePlatforms :
          AddAccount(platform) =>
            /\ new_account' \notin ExistingIds(store)
            /\ store'[Len(store')].id = new_account'
            /\ store'[Len(store')].platform = platform
            /\ new_account'[1] = platform]_vars

\* add_account() had to step over an id in use: the index it returned is
\* larger than the number of rows of the platform
C20_Witness ==
  /\ new_account # <<>>
  /\ store # <<>>
  /\ store[Len(store)].id = new_account
  /\ new_account[2] >
       Cardinality({k \in DOMAIN store : store[k].platform = new_account[1]})
  /\ DistinctIds(store)

\* C21: when run() returns, no task is RUNNING: every task that was set
\* RUNNING has become SUCCESS or FAILED and carries a result
C21_NoTaskLeftRunning ==
  [][\A r \in RunIds :
       RunReturn(r) =>
         \A i \in DOMAIN tasks' :
           /\ tasks'[i].status # RUNNING
           /\ tasks'[i].status \in {SUCCESS, FAILED} => tasks'[i].result.present]_vars

\* the adapter calls a group awaits: check_login_status(), wait_for_login()
\* and publish_article()
AdapterCalls == {"check_login", "wait_login", "publish"}

\* C22: once cancel() was called on a run, no group of that run begins a
\* check_login_status(), wait_for_login() or publish_article() call
C22_NoAdapterCallAfterCancel ==
  [][\A r \in RunIds, a \in AccountIds :
       (/\ runners'[r][a].pc \in AdapterCalls
        /\ runners'[r][a].pc # runners[r][a].pc)
         => ~runs[r].cancel_seen]_vars

\* C23: a group whose run was cancelled does not stay in its inter-task delay
\* until asyncio.sleep() has run out: the elapse of the whole delay is never
\* what takes a cancelled group out of it
C23_DelayInterruptedByCancel ==
  [][\A r \in RunIds, a \in AccountIds :
       DelayElapsed(r, a) => ~runs[r].cancel_seen]_vars

\* the tasks of i's account that stand before, and after, task i in the list
\* generate_tasks() built
Before(i) == {j \in DOMAIN tasks : j < i /\ tasks[j].account_id = tasks[i].account_id}
After(i) == {j \in DOMAIN tasks : j > i /\ tasks[j].account_id = tasks[i].account_id}

C25_RunReturns ==
  \A r \in RunIds :
    (runs[r].phase = "active") ~>
      (/\ runs[r].phase = "returned"
       /\ ~running
       /\ \A a \in AccountIds : adapters[a] = "none")

\* a run of two groups under a semaphore of size 1 has returned after
\* cancel() was called on it
C25_Witness ==
  \E r \in RunIds :
    /\ runs[r].phase = "returned"
    /\ runs[r].cancel_seen
    /\ runs[r].semaphore = 1
    /\ Cardinality(GroupKeys(tasks)) = 2

\* C26: the stored bound and the size of every run's semaphore lie between 1
\* and 10, and set_max_concurrent(count) stores max(1, min(count, 10))
C26_BoundClamped ==
  /\ [](/\ max_concurrent \in 1..10
        /\ \A r \in ActiveRuns : runs[r].semaphore \in 1..10)
  /\ [][\A count \in CountInputs :
          SetMaxConcurrent(count) =>
            max_concurrent' = IF count < 1 THEN 1
                              ELSE IF count > 10 THEN 10 ELSE count]_vars

\* a run uses a semaphore of the largest size, and during it the bound has
\* been set to the smallest
C26_Witness ==
  \E r \in ActiveRuns : runs[r].semaphore = 10 /\ max_concurrent = 1

\* the handle the cache holds for the account and the kind call c asks for
CachedFor(c) ==
  IF calls[c].op = "get_page" THEN pages[calls[c].account]
  ELSE contexts[calls[c].account]

EngineOf(h) ==
  IF handles[h].kind = "page" THEN handles[handles[h].parent].parent
  ELSE handles[h].parent

\* C30: groups that call get_page()/get_context() in one event loop never
\* have two launches of the engine in progress, and every handle handed to a
\* group or held in a cache was created by the engine the manager holds
C30_OneEngineForAllGroups ==
  /\ Cardinality({c \in Callers : calls[c].pc = "launch"}) <= 1
  /\ \A c \in Callers : ReturnsHandle(c) => EngineOf(calls[c].result) = browser
  /\ browser # 0 => \A h \in Cached(Mgr) : EngineOf(h) = browser

\* the step in which call c of initialize() or reinitialize_for_new_loop()
\* runs from its first line to its first await or to its return
Ensures(c) ==
  /\ calls[c].pc = "entry"
  /\ calls'[c] # calls[c]
  /\ calls[c].op \in {"initialize", "reinitialize"}

C29_DisconnectedShutDownFirst ==
  [][\A c \in Callers :
       (/\ Ensures(c)
        /\ current_loop = calls[c].loop
        /\ initialized
        /\ browser # 0
        /\ ~Connected(Mgr))
         => /\ calls'[c].pc = "launch"
            /\ calls'[c].local = browser
            /\ \A a \in Sessions : contexts'[a] = 0 /\ pages'[a] = 0]_vars

\* the tasks that become SUCCESS or FAILED in a step
Settled == {SUCCESS, FAILED}
NewlySettled ==
  {i \in DOMAIN tasks : tasks[i].status \notin Settled /\ tasks'[i].status \in Settled}

\* reset() was called during a run only after cancel(), to start over
ResetOnlyToStartOver == \A r \in RunIds : runs[r].reset_seen => runs[r].abandoned

\* C31: unless reset() is called in the middle of a run, the progress counter
\* never exceeds the total; a step of a group adds to it exactly the number
\* of tasks that become Success or Failed in that step (on_progress is
\* called with each value in turn); and when a run nobody cancelled returns,
\* the counter equals the total
C31_ProgressCountsEachOutcome ==
  /\ [](ResetOnlyToStartOver => completed_count <= total_count)
  /\ [][\A r \in RunIds :
          ResetOnlyToStartOver =>
            /\ (\E a \in AccountIds : RunnerStep(r, a))
                 => completed_count' = completed_count + Cardinality(NewlySettled)
            /\ (RunReturn(r) /\ ~runs[r].cancel_seen)
                 => completed_count = total_count]_vars

\* C32: a task that is Pending or Running has no result, a Success task has
\* a result whose success flag is true, and a Failed task has a result whose
\* success flag is false and that carries a message
C32_ResultMatchesStatus ==
  \A i \in DOMAIN tasks :
    /\ tasks[i].status \in {PENDING, RUNNING} => ~tasks[i].result.present
    /\ tasks[i].status = SUCCESS
         => tasks[i].result.present /\ tasks[i].result.success
    /\ tasks[i].status = FAILED
         => /\ tasks[i].result.present
            /\ ~tasks[i].result.success
            /\ tasks[i].result.message # ""

\* C33: a call of generate_tasks() leaves the account configuration, the
\* article list with its published flags, the running and cancellation
\* flags and the adapter map as they were; every task it builds is Pending
\* without a result; and, the configuration and the loaded articles being
\* the same as at the call before, the new list holds the same accounts
\* and articles in the same order as the list that call built
C33_GenerateTasksFrame ==
  [][GenerateTasks =>
       /\ UNCHANGED <<account_tasks, articles, running, cancelled, adapters>>
       /\ \A i \in DOMAIN tasks' : tasks'[i].status = PENDING /\ ~tasks'[i].result.present
       /\ (/\ Len(tasks) = Len(tasks')
           /\ \A i \in DOMAIN tasks : /\ tasks[i].account_id = tasks'[i].account_id
                                      /\ tasks[i].article = tasks'[i].article)
          \/ tasks = <<>>]_vars

\* generate_tasks() has run after a stopped run whose worker was terminated:
\* the list is new while the cancellation flag is set, an adapter is kept
\* and an article is marked as published
C33_Witness ==
  /\ Idle
  /\ tasks # <<>>
  /\ Fresh
  /\ cancelled
  /\ \E a \in AccountIds : adapters[a] # "none"
  /\ \E i \in DOMAIN articles : articles[i].published

\* C34: a context the manager creates for a profile after
\* save_storage_state() has run for it while its account had a cached
\* context is opened with the saved state loaded; and a call of
\* save_storage_state() for an account without a cached context returns
\* without an error and writes nothing
C34_SavedStateLoaded ==
  [][\A c \in Callers :
       /\ (/\ calls[c].pc = "new_context"
           /\ Len(handles') = Len(handles) + 1
           /\ profiles[calls[c].account].saved)
            => handles'[Len(handles')].storage_state
       /\ (/\ calls[c].pc = "entry"
           /\ calls[c].op = "save_storage_state"
           /\ calls'[c] # calls[c]
           /\ contexts[calls[c].account] = 0)
            => /\ calls'[c].pc = "return"
               /\ ~calls'[c].raised
               /\ profiles' = profiles]_vars

\* C35: wait_for_login() polls at most max_wait/interval times; once cancel()
\* has been called at most one sleep still ends; and a call that returns
\* after a poll that followed cancel() returns (False, ""), never a success
C35_LoginWaitStopsOnCancel ==
  /\ login.waited <= MaxWait
  /\ login.late <= 1
  /\ (login.pc = "return" /\ login.late > 0 /\ ~login.raised)
       => login.result = <<FALSE, "">>

\* the tasks that reach SUCCESS in a step
NewlySucceeded ==
  {k \in DOMAIN tasks : tasks[k].status # SUCCESS /\ tasks'[k].status = SUCCESS}

\* C36: the article list keeps its length and every article its index; a
\* published flag is never cleared, and it is set in exactly the steps in
\* which a task holding the article reaches Success; so every Success task
\* holds a published article
C36_PublishedIffSucceeded ==
  /\ [](\A k \in DOMAIN tasks :
          tasks[k].status = SUCCESS => articles[tasks[k].article].published)
  /\ [][/\ Len(articles') = Len(articles)
        /\ \A i \in DOMAIN articles :
             /\ articles'[i].index = articles[i].index
             /\ articles[i].published => articles'[i].published
             /\ (~articles[i].published /\ articles'[i].published)
                  <=> (/\ ~articles[i].published
                       /\ tasks' # tasks
                       /\ Len(tasks') = Len(tasks)
                       /\ \E k \in NewlySucceeded : tasks[k].article = i)]_vars

\* one task has succeeded and its article is marked, another has failed and
\* its article is not
C36_Witness ==
  \E k, j \in DOMAIN tasks :
    /\ tasks[k].status = SUCCESS /\ articles[tasks[k].article].published
    /\ tasks[j].status = FAILED /\ ~articles[tasks[j].article].published

\* C37: while there are tasks, and unless reset() is called in the middle of
\* a run, at most one run() invocation has group runners at any time, and
\* is_running is true exactly while a run() invocation has not returned
C37_OneRunAtATime ==
  (ResetOnlyToStartOver /\ tasks # <<>>) =>
    /\ Cardinality(ActiveRuns) <= 1
    /\ running <=> ActiveRuns # {}

\* how many times row r occurs in rows
Occurrences(rows, r) == Cardinality({k \in DOMAIN rows : rows[k] = r})

\* the known ids of new_order, in the given order
RECURSIVE KnownIds(_, _)
KnownIds(rows, new_order) ==
  IF new_order = <<>> THEN <<>>
  ELSE (IF Head(new_order) \in ExistingIds(rows) THEN <<Head(new_order)>> ELSE <<>>)
       \o KnownIds(rows, Tail(new_order))

\* C38: reorder_accounts(new_order) leaves a permutation of the account list
\* (every account as many times as before), in which the known ids of
\* new_order come first in the given order and the accounts not listed
\* follow in their previous relative order
C38_ReorderIsPermutation ==
  [][\A new_order \in Orders :
       ReorderAccounts(new_order) =>
         LET known == KnownIds(store, new_order)
         IN /\ Len(store') = Len(store)
            /\ \A k \in DOMAIN store :
                 Occurrences(store', store[k]) = Occurrences(store, store[k])
            /\ Len(known) <= Len(store')
            /\ \A k \in DOMAIN known : store'[k].id = known[k]
            /\ SubSeq(store', Len(known) + 1, Len(store'))
                 = NotListed(store, new_order)]_vars

\* C39: once cancel() has been called and the close_all() that follows it
\* has completed, the manager holds no engine, is not initialized and has
\* empty caches, and no engine, context or page is created any more
C39_NothingCreatedAfterStop ==
  /\ [](StopDone => /\ ~initialized
                    /\ browser = 0
                    /\ \A a \in Sessions : contexts[a] = 0 /\ pages[a] = 0)
  /\ [][StopDone => handles' = handles]_vars

\* C40: a generate_tasks() call never assigns to a task an article whose
\* published flag was set by a successful task of an earlier run
C40_PublishedNeverReassigned ==
  [][GenerateTasks => \A i \in DOMAIN tasks' :
                        ~articles[tasks'[i].article].published]_vars

====
